---------------------------- MODULE Spec2Model ----------------------------
(***************************************************************************)
(* The descheduler's event engine (pkg/descheduler/descheduler.go):        *)
(*   - the three callbacks registered by CreateDescheduler (timer, node    *)
(*     informer, replica-set informer), which all write the one Event      *)
(*     record `newEvent` declared at line 56 and hand a copy to queue.Add; *)
(*   - the work queue they feed;                                           *)
(*   - Descheduler.Run with its deferred calls, the three cache-sync waits *)
(*     and wait.Until(d.runWorker, time.Second, stopCh);                   *)
(*   - runWorker / processNextItem / processNodeItem.                      *)
(* Each callback runs in a goroutine of its own (one per informer, one for *)
(* the timer), so their statements interleave; one statement is one step.  *)
(***************************************************************************)
EXTENDS Naturals, Sequences, FiniteSets

\* ------------------------------------------------------------- bounds
\* How many callback invocations that write newEvent a behaviour holds, from
\* construction (MaxFires) and from the running engine with only its timer
\* firing (MaxTimerFires).
MaxFires == 2
MaxTimerFires == 6

\* ------------------------------------------------------------- constants
maxRetries == 5

NodeKeys == {"n1"}
RsKeys   == {"rs1"}
Informers == {"node", "rs", "pod"}

NoErr  == "nil"
KeyErr == "keyErr"

\* type Event struct { key, eventType, namespace, resourceType string }
Event(k, t, r) == [key |-> k, eventType |-> t, namespace |-> "", resourceType |-> r]

\* var newEvent Event : the zero value
ZeroEvent == Event("", "", "")

VARIABLES
    newEvent,    \* the Event record shared by the three callbacks (line 56)
    err,         \* CreateDescheduler's err, assigned by the node and rs callbacks
    budget,      \* callback invocations that may still begin to write newEvent
    nodeCache,   \* node informer's store: readiness of the cached node objects
    nodeCb,      \* the node UpdateFunc in progress: [pc, obj, keyOk]
    rsCb,        \* the replica-set UpdateFunc in progress: [pc, obj, keyOk]
    timerPc,     \* the timer callback in progress
    wq,          \* the work queue: [queue, dirty, processing, shuttingDown]
    numRequeues, \* the rate limiter's map from an item to its failure count
    runPc,       \* where Descheduler.Run is
    defers,      \* Run's stack of deferred calls, last pushed first
    ch,          \* the stop channel Run made for each informer: none/open/closed
    synced,      \* HasSynced of each informer
    stopCh,      \* the caller's stop channel is closed
    timerRunning,\* timer.RunTimer() was called
    handledError,\* what Run passed to runtime.HandleError
    workerPc,    \* where runWorker / processNextItem is
    item,        \* processNextItem's event (the result of Get)
    triggered,   \* the result of trigger.IsTriggered for item: none/true/false
    listed,      \* the result of node.GetReadyNodes for item: none/ok/err
    failStreak   \* history: the item processed last and the number of
                 \* consecutive attempts on it in which GetReadyNodes failed

vars == <<newEvent, err, budget, nodeCache, nodeCb, rsCb, timerPc, wq, numRequeues,
          runPc, defers, ch, synced, stopCh, timerRunning, handledError,
          workerPc, item, triggered, listed, failStreak>>

cbVars     == <<newEvent, err, budget, nodeCache, nodeCb, rsCb, timerPc>>
runVars    == <<runPc, defers, ch, synced, stopCh, timerRunning, handledError>>
workerVars == <<workerPc, item, triggered, listed, failStreak>>

NoStreak == [ev |-> ZeroEvent, n |-> 0]

IdleCb == [pc |-> "idle", obj |-> "", keyOk |-> TRUE]

\* ------------------------------------------------------------- the queue
\* workqueue.Type: queue is the order of delivery, dirty the items that need
\* processing, processing the items handed out by Get and not yet Done.
EmptyQueue == [queue |-> <<>>, dirty |-> {}, processing |-> {}, shuttingDown |-> FALSE]

QAdd(q, e) ==
    IF q.shuttingDown \/ e \in q.dirty THEN q
    ELSE IF e \in q.processing
         THEN [q EXCEPT !.dirty = @ \cup {e}]
         ELSE [q EXCEPT !.dirty = @ \cup {e}, !.queue = Append(@, e)]

\* Get blocks while the queue is empty and not shutting down.
QGetEnabled(q) == q.queue # <<>> \/ q.shuttingDown
QGetQuit(q)    == q.queue = <<>>
QGetItem(q)    == Head(q.queue)
QGet(q) ==
    IF q.queue = <<>> THEN q
    ELSE [q EXCEPT !.queue = Tail(@),
                   !.processing = @ \cup {Head(q.queue)},
                   !.dirty = @ \ {Head(q.queue)}]

QDone(q, e) ==
    IF e \in q.dirty
    THEN [q EXCEPT !.processing = @ \ {e}, !.queue = Append(@, e)]
    ELSE [q EXCEPT !.processing = @ \ {e}]

QShutDown(q) == [q EXCEPT !.shuttingDown = TRUE]

\* The rate limiter's failures map: an item it does not hold counts 0.
NumRequeues(e) == IF e \in DOMAIN numRequeues THEN numRequeues[e] ELSE 0

\* ------------------------------------------------------------- Init
Init ==
    /\ newEvent = ZeroEvent
    /\ err = NoErr
    /\ budget = MaxFires
    /\ nodeCache \in [NodeKeys -> BOOLEAN]
    /\ nodeCb = IdleCb
    /\ rsCb = IdleCb
    /\ timerPc = "idle"
    /\ wq = EmptyQueue
    /\ numRequeues = <<>>
    /\ runPc = "start"
    /\ defers = <<>>
    /\ ch = [i \in Informers |-> "none"]
    /\ synced = [i \in Informers |-> FALSE]
    /\ stopCh = FALSE
    /\ timerRunning = FALSE
    /\ handledError = "none"
    /\ workerPc = "idle"
    /\ item = ZeroEvent
    /\ triggered = "none"
    /\ listed = "none"
    /\ failStreak = NoStreak

CanFire == budget > 0

\* ------------------------------------------------------------- timer callback
\* TimerFire with a key that changes from one firing to the next.
TimerFireStamped ==
    /\ timerRunning /\ timerPc = "idle" /\ CanFire
    /\ newEvent' = [newEvent EXCEPT !.eventType = "onTime",
                                    !.key = IF @ = "tick" THEN "" ELSE "tick"]
    /\ timerPc' = "l112"
    /\ budget' = budget - 1
    /\ UNCHANGED <<err, nodeCache, nodeCb, rsCb, wq, numRequeues>>
    /\ UNCHANGED <<runVars, workerVars>>

\* lines 110-111
TimerFire ==
    /\ timerRunning /\ timerPc = "idle" /\ CanFire
    /\ newEvent' = [newEvent EXCEPT !.eventType = "onTime"]
    /\ timerPc' = "l112"
    /\ budget' = budget - 1
    /\ UNCHANGED <<err, nodeCache, nodeCb, rsCb, wq, numRequeues>>
    /\ UNCHANGED <<runVars, workerVars>>

\* line 112
TimerSetResource ==
    /\ timerPc = "l112"
    /\ newEvent' = [newEvent EXCEPT !.resourceType = "timer"]
    /\ timerPc' = "l113"
    /\ UNCHANGED <<err, budget, nodeCache, nodeCb, rsCb, wq, numRequeues>>
    /\ UNCHANGED <<runVars, workerVars>>

\* line 113
TimerAdd ==
    /\ timerPc = "l113"
    /\ wq' = QAdd(wq, newEvent)
    /\ timerPc' = "idle"
    /\ UNCHANGED <<newEvent, err, budget, nodeCache, nodeCb, rsCb, numRequeues>>
    /\ UNCHANGED <<runVars, workerVars>>

\* ------------------------------------------------------------- informer objects
\* node.IsReady: the readiness condition of a node object.
IsReady(n) == n.ready

\* cache.MetaNamespaceKeyFunc: the object's key, or "" and an error.
MetaNamespaceKeyFunc(k, ok) == IF ok THEN <<k, NoErr>> ELSE <<"", KeyErr>>

\* ------------------------------------------------------------- node callback
\* lines 121-125: the informer stores the new object and calls
\* UpdateFunc(old, new); on a not-ready -> ready update the handler assigns
\* newEvent.key and err.
NodeUpdate(k, ready, ok) ==
    LET old == [key |-> k, ready |-> nodeCache[k]]
        new == [key |-> k, ready |-> ready]
        kf  == MetaNamespaceKeyFunc(old.key, ok)
    IN  /\ ch["node"] = "open" /\ nodeCb.pc = "idle"
        /\ nodeCache' = [nodeCache EXCEPT ![k] = ready]
        /\ IF ~IsReady(old) /\ IsReady(new)
           THEN /\ CanFire
                /\ newEvent' = [newEvent EXCEPT !.key = kf[1]]
                /\ err' = kf[2]
                /\ nodeCb' = [pc |-> "l126", obj |-> k, keyOk |-> ok]
                /\ budget' = budget - 1
           ELSE /\ ok
                /\ UNCHANGED <<newEvent, err, nodeCb, budget>>
        /\ UNCHANGED <<rsCb, timerPc, wq, numRequeues>>
        /\ UNCHANGED <<runVars, workerVars>>

\* line 126
NodeSetType ==
    /\ nodeCb.pc = "l126"
    /\ newEvent' = [newEvent EXCEPT !.eventType = "getReady"]
    /\ nodeCb' = [nodeCb EXCEPT !.pc = "l127"]
    /\ UNCHANGED <<err, budget, nodeCache, rsCb, timerPc, wq, numRequeues>>
    /\ UNCHANGED <<runVars, workerVars>>

\* line 127
NodeSetResource ==
    /\ nodeCb.pc = "l127"
    /\ newEvent' = [newEvent EXCEPT !.resourceType = "node"]
    /\ nodeCb' = [nodeCb EXCEPT !.pc = "l128"]
    /\ UNCHANGED <<err, budget, nodeCache, rsCb, timerPc, wq, numRequeues>>
    /\ UNCHANGED <<runVars, workerVars>>

\* lines 128-130
NodeAdd ==
    /\ nodeCb.pc = "l128"
    /\ wq' = IF err = NoErr THEN QAdd(wq, newEvent) ELSE wq
    /\ nodeCb' = IdleCb
    /\ UNCHANGED <<newEvent, err, budget, nodeCache, rsCb, timerPc, numRequeues>>
    /\ UNCHANGED <<runVars, workerVars>>

\* ------------------------------------------------------------- replica-set callback
\* lines 137-140: every update assigns newEvent.key and err.
RsUpdate(k, ok) ==
    LET kf == MetaNamespaceKeyFunc(k, ok)
    IN  /\ ch["rs"] = "open" /\ rsCb.pc = "idle" /\ CanFire
        /\ newEvent' = [newEvent EXCEPT !.key = kf[1]]
        /\ err' = kf[2]
        /\ rsCb' = [pc |-> "l141", obj |-> k, keyOk |-> ok]
        /\ budget' = budget - 1
        /\ UNCHANGED <<nodeCache, nodeCb, timerPc, wq, numRequeues>>
        /\ UNCHANGED <<runVars, workerVars>>

\* RsSetType when the queue and the worker hold references to newEvent instead
\* of copies: the write shows in every value handed to queue.Add before.
RsSetTypeAliased ==
    /\ rsCb.pc = "l141"
    /\ newEvent' = [newEvent EXCEPT !.eventType = "rsUpdate"]
    /\ rsCb' = [rsCb EXCEPT !.pc = "l142"]
    /\ wq' = [wq EXCEPT !.queue = [n \in 1..Len(wq.queue) |-> newEvent'],
                        !.dirty = {newEvent' : e \in wq.dirty},
                        !.processing = {newEvent' : e \in wq.processing}]
    /\ item' = IF wq.processing # {} THEN newEvent' ELSE item
    /\ UNCHANGED <<err, budget, nodeCache, nodeCb, timerPc, numRequeues>>
    /\ UNCHANGED <<runVars, workerPc, triggered, listed, failStreak>>

\* line 141
RsSetType ==
    /\ rsCb.pc = "l141"
    /\ newEvent' = [newEvent EXCEPT !.eventType = "rsUpdate"]
    /\ rsCb' = [rsCb EXCEPT !.pc = "l142"]
    /\ UNCHANGED <<err, budget, nodeCache, nodeCb, timerPc, wq, numRequeues>>
    /\ UNCHANGED <<runVars, workerVars>>

\* line 142
RsSetResource ==
    /\ rsCb.pc = "l142"
    /\ newEvent' = [newEvent EXCEPT !.resourceType = "replicaSet"]
    /\ rsCb' = [rsCb EXCEPT !.pc = "l143"]
    /\ UNCHANGED <<err, budget, nodeCache, nodeCb, timerPc, wq, numRequeues>>
    /\ UNCHANGED <<runVars, workerVars>>

\* lines 143-145
RsAdd ==
    /\ rsCb.pc = "l143"
    /\ wq' = IF err = NoErr THEN QAdd(wq, newEvent) ELSE wq
    /\ rsCb' = IdleCb
    /\ UNCHANGED <<newEvent, err, budget, nodeCache, nodeCb, timerPc, numRequeues>>
    /\ UNCHANGED <<runVars, workerVars>>

\* ------------------------------------------------------------- Run
\* The caller closes stopCh.
CloseStop ==
    /\ ~stopCh
    /\ stopCh' = TRUE
    /\ UNCHANGED <<runPc, defers, ch, synced, timerRunning, handledError>>
    /\ UNCHANGED <<cbVars, wq, numRequeues, workerVars>>

\* An informer that was started and not stopped finishes its initial list.
InformerSync(i) ==
    /\ ch[i] = "open" /\ ~synced[i]
    /\ synced' = [synced EXCEPT ![i] = TRUE]
    /\ UNCHANGED <<runPc, defers, ch, stopCh, timerRunning, handledError>>
    /\ UNCHANGED <<cbVars, wq, numRequeues, workerVars>>

\* lines 153-154
RunEnter ==
    /\ runPc = "start"
    /\ defers' = <<"ShutDown", "HandleCrash">>
    /\ runPc' = "startnode"
    /\ UNCHANGED <<ch, synced, stopCh, timerRunning, handledError>>
    /\ UNCHANGED <<cbVars, wq, numRequeues, workerVars>>

RunNextPc(i) == CASE i = "node" -> "startrs" [] i = "rs" -> "startpod" [] i = "pod" -> "ready"

\* RunStartInformer without the defer close(ch).
RunStartInformerNoDefer(i) ==
    /\ runPc = "start" \o i
    /\ ch' = [ch EXCEPT ![i] = "open"]
    /\ runPc' = "wait" \o i
    /\ UNCHANGED <<defers, synced, stopCh, timerRunning, handledError>>
    /\ UNCHANGED <<cbVars, wq, numRequeues, workerVars>>

\* lines 160-162, 169-171, 178-180: ch := make(chan struct{}); defer close(ch);
\* go informer.Run(ch)
RunStartInformer(i) ==
    /\ runPc = "start" \o i
    /\ ch' = [ch EXCEPT ![i] = "open"]
    /\ defers' = <<"close" \o i>> \o defers
    /\ runPc' = "wait" \o i
    /\ UNCHANGED <<synced, stopCh, timerRunning, handledError>>
    /\ UNCHANGED <<cbVars, wq, numRequeues, workerVars>>

\* cache.WaitForCacheSync(ch, HasSynced): true once HasSynced holds, false when
\* the wait gives up before that.
WaitForCacheSync(i, result) == result = synced[i]

\* RunWaitSync without the return after HandleError.
RunWaitSyncNoReturn(i, result) ==
    /\ runPc = "wait" \o i
    /\ WaitForCacheSync(i, result)
    /\ handledError' = IF result THEN handledError ELSE i
    /\ runPc' = RunNextPc(i)
    /\ UNCHANGED <<defers, ch, synced, stopCh, timerRunning>>
    /\ UNCHANGED <<cbVars, wq, numRequeues, workerVars>>

\* lines 163-166, 172-175, 181-184
RunWaitSync(i, result) ==
    /\ runPc = "wait" \o i
    /\ WaitForCacheSync(i, result)
    /\ IF ~result
       THEN /\ handledError' = i
            /\ runPc' = "return"
       ELSE /\ runPc' = RunNextPc(i)
            /\ UNCHANGED handledError
    /\ UNCHANGED <<defers, ch, synced, stopCh, timerRunning>>
    /\ UNCHANGED <<cbVars, wq, numRequeues, workerVars>>

\* lines 186-189
RunTimer ==
    /\ runPc = "ready"
    /\ timerRunning' = TRUE
    /\ runPc' = "until"
    /\ UNCHANGED <<defers, ch, synced, stopCh, handledError>>
    /\ UNCHANGED <<cbVars, wq, numRequeues, workerVars>>

\* line 191, wait.Until(d.runWorker, time.Second, stopCh): return if stopCh is
\* closed; otherwise call runWorker, and when it has returned wait for the
\* period or for stopCh.
RunUntil ==
    /\ runPc \in {"until", "sleep"}
    /\ IF stopCh
       THEN runPc' = "return" /\ UNCHANGED workerPc
       ELSE IF runPc = "until"
            THEN runPc' = "worker" /\ workerPc' = "get"
            ELSE runPc' = "until" /\ UNCHANGED workerPc
    /\ UNCHANGED <<defers, ch, synced, stopCh, timerRunning, handledError>>
    /\ UNCHANGED <<cbVars, wq, numRequeues, item, triggered, listed, failStreak>>

\* Run returns: the deferred calls run, last pushed first.
RunDeferred ==
    /\ runPc = "return" /\ defers # <<>>
    /\ LET d == Head(defers)
       IN  /\ wq' = IF d = "ShutDown" THEN QShutDown(wq) ELSE wq
           /\ ch' = [i \in Informers |-> IF d = "close" \o i THEN "closed" ELSE ch[i]]
    /\ defers' = Tail(defers)
    /\ runPc' = IF Tail(defers) = <<>> THEN "returned" ELSE "return"
    /\ UNCHANGED <<synced, stopCh, timerRunning, handledError>>
    /\ UNCHANGED <<cbVars, numRequeues, workerVars>>

\* ------------------------------------------------------------- worker
\* ProcessGet that calls Done right after Get instead of deferring it.
ProcessGetDoneAtOnce ==
    /\ runPc = "worker" /\ workerPc = "get"
    /\ QGetEnabled(wq)
    /\ IF QGetQuit(wq)
       THEN /\ workerPc' = "idle"
            /\ runPc' = "sleep"
            /\ UNCHANGED <<wq, item>>
       ELSE /\ item' = QGetItem(wq)
            /\ wq' = QDone(QGet(wq), QGetItem(wq))
            /\ workerPc' = "classify"
            /\ UNCHANGED runPc
    /\ UNCHANGED <<triggered, listed, failStreak>>
    /\ UNCHANGED <<defers, ch, synced, stopCh, timerRunning, handledError>>
    /\ UNCHANGED <<cbVars, numRequeues>>

\* lines 201-206: Get; quit ends runWorker, which returns into wait.Until.
\* (ShutDown is called only by Run's deferred call, which runs after wait.Until
\* has returned.)
ProcessGet ==
    /\ runPc = "worker" /\ workerPc = "get"
    /\ QGetEnabled(wq)
    /\ IF QGetQuit(wq)
       THEN /\ workerPc' = "idle"
            /\ runPc' = "sleep"
            /\ UNCHANGED <<wq, item>>
       ELSE /\ item' = QGetItem(wq)
            /\ wq' = QGet(wq)
            /\ workerPc' = "classify"
            /\ UNCHANGED runPc
    /\ UNCHANGED <<triggered, listed, failStreak>>
    /\ UNCHANGED <<defers, ch, synced, stopCh, timerRunning, handledError>>
    /\ UNCHANGED <<cbVars, numRequeues>>

\* ProcessClassify without the resourceType test.
ProcessClassifyAll(result) ==
    /\ workerPc = "classify"
    /\ triggered' = IF result THEN "true" ELSE "false"
    /\ workerPc' = IF result THEN "process" ELSE "done"
    /\ failStreak' = IF result THEN failStreak ELSE NoStreak
    /\ UNCHANGED <<item, listed>>
    /\ UNCHANGED <<cbVars, wq, numRequeues, runVars>>

\* ProcessClassify that calls processNodeItem whatever IsTriggered returned.
ProcessClassifyCallsProvider(result) ==
    /\ workerPc = "classify"
    /\ IF item.resourceType = "node" \/ item.resourceType = "timer"
       THEN /\ triggered' = IF result THEN "true" ELSE "false"
            /\ workerPc' = "process"
            /\ failStreak' = IF result THEN failStreak ELSE NoStreak
       ELSE /\ result
            /\ triggered' = "none"
            /\ workerPc' = "done"
            /\ failStreak' = NoStreak
    /\ UNCHANGED <<item, listed>>
    /\ UNCHANGED <<cbVars, wq, numRequeues, runVars>>

\* lines 208-216: the resourceType test and trigger.IsTriggered, whose result
\* is an input.
ProcessClassify(result) ==
    /\ workerPc = "classify"
    /\ IF item.resourceType = "node" \/ item.resourceType = "timer"
       THEN /\ triggered' = IF result THEN "true" ELSE "false"
            /\ workerPc' = IF result THEN "process" ELSE "done"
            /\ failStreak' = IF result THEN failStreak ELSE NoStreak
       ELSE /\ result
            /\ triggered' = "none"
            /\ workerPc' = "done"
            /\ failStreak' = NoStreak
    /\ UNCHANGED <<item, listed>>
    /\ UNCHANGED <<cbVars, wq, numRequeues, runVars>>

\* ProcessNodeItem whose error leaves processNextItem without running the
\* deferred Done: the worker goes straight to the next Get.
ProcessNodeItemEarlyReturn(ok) ==
    /\ workerPc = "process"
    /\ IF ok
       THEN /\ listed' = "ok"
            /\ workerPc' = "done"
            /\ failStreak' = NoStreak
            /\ UNCHANGED <<item, triggered>>
       ELSE /\ listed' = "none"
            /\ workerPc' = "get"
            /\ item' = ZeroEvent
            /\ triggered' = "none"
            /\ failStreak' = [ev |-> item,
                              n  |-> IF failStreak.ev = item THEN failStreak.n + 1 ELSE 1]
    /\ UNCHANGED <<cbVars, wq, numRequeues, runVars>>

\* ProcessNodeItem whose error makes processNextItem return false: runWorker's
\* loop ends and wait.Until sleeps.
ProcessNodeItemQuits(ok) ==
    /\ workerPc = "process"
    /\ listed' = IF ok THEN "ok" ELSE "err"
    /\ workerPc' = IF ok THEN "done" ELSE "idle"
    /\ runPc' = IF ok THEN runPc ELSE "sleep"
    /\ failStreak' = IF ok THEN NoStreak
                      ELSE [ev |-> item,
                            n  |-> IF failStreak.ev = item THEN failStreak.n + 1 ELSE 1]
    /\ UNCHANGED <<item, triggered>>
    /\ UNCHANGED <<defers, ch, synced, stopCh, timerRunning, handledError>>
    /\ UNCHANGED <<cbVars, wq, numRequeues>>

\* lines 214, 220-228: processNodeItem; the result of node.GetReadyNodes is an
\* input, and the error processNodeItem returns is dropped by its caller.
ProcessNodeItem(ok) ==
    /\ workerPc = "process"
    /\ listed' = IF ok THEN "ok" ELSE "err"
    /\ workerPc' = "done"
    /\ failStreak' = IF ok THEN NoStreak
                      ELSE [ev |-> item,
                            n  |-> IF failStreak.ev = item THEN failStreak.n + 1 ELSE 1]
    /\ UNCHANGED <<item, triggered>>
    /\ UNCHANGED <<cbVars, wq, numRequeues, runVars>>

\* ProcessDone that re-queues every item whose GetReadyNodes call failed, with
\* no cap: AddRateLimited counts the failure and adds the item again.
ProcessDoneRetryAlways ==
    /\ workerPc = "done"
    /\ IF listed = "err"
       THEN /\ numRequeues' = [e \in DOMAIN numRequeues \cup {item} |->
                                  IF e = item THEN NumRequeues(item) + 1 ELSE numRequeues[e]]
            /\ wq' = QAdd(QDone(wq, item), item)
       ELSE /\ wq' = QDone(wq, item)
            /\ UNCHANGED numRequeues
    /\ workerPc' = "get"
    /\ item' = ZeroEvent
    /\ triggered' = "none"
    /\ listed' = "none"
    /\ UNCHANGED <<cbVars, runVars, failStreak>>

\* ProcessDone without the deferred Done.
ProcessDoneNoDone ==
    /\ workerPc = "done"
    /\ workerPc' = "get"
    /\ item' = ZeroEvent
    /\ triggered' = "none"
    /\ listed' = "none"
    /\ UNCHANGED <<cbVars, wq, numRequeues, runVars, failStreak>>

\* lines 206, 217: return true runs the deferred d.queue.Done(newEvent), and
\* runWorker calls processNextItem again.
ProcessDone ==
    /\ workerPc = "done"
    /\ wq' = QDone(wq, item)
    /\ workerPc' = "get"
    /\ item' = ZeroEvent
    /\ triggered' = "none"
    /\ listed' = "none"
    /\ UNCHANGED <<cbVars, numRequeues, runVars, failStreak>>

Next ==
    \/ TimerFire \/ TimerSetResource \/ TimerAdd
    \/ \E k \in NodeKeys, ready \in BOOLEAN, ok \in BOOLEAN : NodeUpdate(k, ready, ok)
    \/ NodeSetType \/ NodeSetResource \/ NodeAdd
    \/ \E k \in RsKeys, ok \in BOOLEAN : RsUpdate(k, ok)
    \/ RsSetType \/ RsSetResource \/ RsAdd
    \/ CloseStop
    \/ \E i \in Informers : InformerSync(i)
    \/ RunEnter
    \/ \E i \in Informers : RunStartInformer(i)
    \/ \E i \in Informers, result \in BOOLEAN : RunWaitSync(i, result)
    \/ RunTimer \/ RunUntil \/ RunDeferred
    \/ ProcessGet
    \/ \E result \in BOOLEAN : ProcessClassify(result)
    \/ \E ok \in BOOLEAN : ProcessNodeItem(ok)
    \/ ProcessDone

Spec == Init /\ [][Next]_vars

\* ------------------------------------------------------------- the running engine
\* The state Run reaches when every informer has synced, the timer is started
\* and wait.Until has called runWorker, before any callback has run.
RunningInit ==
    /\ newEvent = ZeroEvent
    /\ err = NoErr
    /\ budget = MaxTimerFires
    /\ nodeCache \in [NodeKeys -> BOOLEAN]
    /\ nodeCb = IdleCb
    /\ rsCb = IdleCb
    /\ timerPc = "idle"
    /\ wq = EmptyQueue
    /\ numRequeues = <<>>
    /\ runPc = "worker"
    /\ defers = <<"closepod", "closers", "closenode", "ShutDown", "HandleCrash">>
    /\ ch = [i \in Informers |-> "open"]
    /\ synced = [i \in Informers |-> TRUE]
    /\ stopCh = FALSE
    /\ timerRunning = TRUE
    /\ handledError = "none"
    /\ workerPc = "get"
    /\ item = ZeroEvent
    /\ triggered = "none"
    /\ listed = "none"
    /\ failStreak = NoStreak

\* The timer and the worker, with no informer update arriving.
TimerNext ==
    \/ TimerFire \/ TimerSetResource \/ TimerAdd
    \/ ProcessGet
    \/ \E result \in BOOLEAN : ProcessClassify(result)
    \/ \E ok \in BOOLEAN : ProcessNodeItem(ok)
    \/ ProcessDone

TimerSpec == RunningInit /\ [][TimerNext]_vars
\* ------------------------------------------------------------- fairness
\* Run and the worker are one goroutine, each callback has a goroutine of its
\* own: a statement that can run does run.  Nothing makes the caller close
\* stopCh, an informer sync, an update arrive, the timer fire, or a cache-sync
\* wait give up.
RunStep ==
    \/ RunEnter
    \/ \E i \in Informers : RunStartInformer(i)
    \/ \E i \in Informers : RunWaitSync(i, TRUE)
    \/ RunTimer \/ RunUntil \/ RunDeferred
    \/ ProcessGet
    \/ \E result \in BOOLEAN : ProcessClassify(result)
    \/ \E ok \in BOOLEAN : ProcessNodeItem(ok)
    \/ ProcessDone

TimerStep == TimerSetResource \/ TimerAdd
NodeStep  == NodeSetType \/ NodeSetResource \/ NodeAdd
RsStep    == RsSetType \/ RsSetResource \/ RsAdd

FairSpec ==
    /\ Spec
    /\ WF_vars(RunStep) /\ WF_vars(TimerStep) /\ WF_vars(NodeStep) /\ WF_vars(RsStep)

\* ------------------------------------------------------------- claims
TimerEvent == Event("", "onTime", "timer")
QueueItems == {wq.queue[n] : n \in 1..Len(wq.queue)}

\* The node handler's closing statement (lines 128-130) runs.
NodeHandlerEnds == nodeCb.pc = "l128" /\ nodeCb'.pc = "idle"

\* C1: the node update handler submits Event{getReady, node, <the node's key>}
\* exactly when old is not ready and new is ready; every other update submits
\* nothing.  Stated for the handler runs that reach queue.Add: the node's own
\* key was derived and the err the handler reads is nil.
C1_NodeSubmitsIffBecameReady ==
    [][ /\ (nodeCb.pc = "idle" /\ nodeCb'.pc # "idle")
            => (~nodeCache[nodeCb'.obj] /\ nodeCache'[nodeCb'.obj])
        /\ (nodeCache' # nodeCache /\ nodeCb'.pc = "idle") => wq' = wq
        /\ (NodeHandlerEnds /\ nodeCb.keyOk /\ err = NoErr)
            => wq' = QAdd(wq, Event(nodeCb.obj, "getReady", "node")) ]_vars

\* C2: at most one item is dequeued and not yet Done, and it is the one the
\* worker holds; no second item leaves the queue before Done.
C2_OneItemInFlight ==
    /\ Cardinality(wq.processing) <= 1
    /\ wq.processing # {} => (wq.processing = {item} /\ workerPc \in {"classify", "process", "done"})
    /\ wq.processing = {} => workerPc \in {"idle", "get"}

\* C2 witness: the worker is held in the provider call on one item while
\* another waits in the queue.
C2_Witness ==
    /\ workerPc = "process" /\ wq.processing = {item}
    /\ wq.queue # <<>> /\ Head(wq.queue) # item

\* No node or replica-set handler has written newEvent yet: a handler's first
\* statement leaves a key, or leaves the key empty with err set, and err is
\* cleared only by a statement that leaves a key.
OnlyTimerFired ==
    /\ newEvent.key = "" /\ err = NoErr
    /\ nodeCb.pc = "idle" /\ rsCb.pc = "idle"

\* C3: the queue never holds two pending instances of one event value, and
\* while only the timer callback has fired at most one event, the timer event,
\* is pending however often it fired.
C3_PendingCoalesced ==
    /\ \A m, n \in 1..Len(wq.queue) : m # n => wq.queue[m] # wq.queue[n]
    /\ QueueItems \subseteq wq.dirty
    /\ OnlyTimerFired => (QueueItems \subseteq {TimerEvent} /\ Len(wq.queue) <= 1)

\* C3 witness: the timer callback has run twice to its end before the worker
\* was started, and one timer event is pending.
C3_Witness ==
    /\ OnlyTimerFired /\ budget = MaxFires - 2 /\ timerPc = "idle"
    /\ runPc = "until" /\ workerPc = "idle"
    /\ wq.queue = <<TimerEvent>> /\ wq.processing = {}

Running == runPc \in {"until", "worker", "sleep"}

\* C4: the timer and the worker loop are started only when every informer has
\* synced; after a failed sync wait Run is returning, the timer is not
\* started, the worker never ran, nothing was dequeued and the trigger was not
\* evaluated.
C4_RunningOnlyWhenSynced ==
    /\ (Running \/ timerRunning \/ workerPc # "idle" \/ runPc = "ready")
            => \A i \in Informers : synced[i]
    /\ handledError # "none" =>
            /\ runPc \in {"return", "returned"}
            /\ ~timerRunning /\ workerPc = "idle"
            /\ wq.processing = {} /\ item = ZeroEvent
            /\ triggered = "none" /\ listed = "none"

\* C4 witness: Run has returned after the replica-set sync wait failed, with
\* an event of the node handler still in the queue.
C4_Witness ==
    /\ handledError = "rs" /\ runPc = "returned"
    /\ wq.queue # <<>>
\* C5: once stopCh is closed while the worker loop runs, the queue is
\* eventually shut down, runWorker ends and Run returns.
C5_StopEndsRun ==
    (stopCh /\ Running) ~> (runPc = "returned" /\ wq.shuttingDown /\ workerPc = "idle")

\* The worker acknowledges an item whose GetReadyNodes call failed.
AckFailed == workerPc = "done" /\ listed = "err" /\ workerPc' = "get"

\* C6: an item whose GetReadyNodes call failed is counted as a failure and
\* queued again, while its count is below maxRetries.
C6_ProviderErrorRequeues ==
    [][ (AckFailed /\ NumRequeues(item) < maxRetries)
            => /\ item \in DOMAIN numRequeues'
               /\ numRequeues'[item] = NumRequeues(item) + 1
               /\ item \in wq'.dirty ]_vars

\* C7: no item's retry count passes maxRetries, and when GetReadyNodes has
\* failed on maxRetries or more consecutive attempts on an item, the worker's
\* acknowledgement leaves its retry count at zero and does not queue it again:
\* it is pending afterwards only if a callback added it meanwhile.
C7_RetriesCapped ==
    /\ [](\A e \in DOMAIN numRequeues : numRequeues[e] <= maxRetries)
    /\ [][ (AckFailed /\ failStreak.n >= maxRetries)
            => /\ (item \in DOMAIN numRequeues' => numRequeues'[item] = 0)
               /\ (item \in wq'.dirty => item \in wq.dirty) ]_vars

\* C7 witness: GetReadyNodes has failed on maxRetries consecutive attempts on
\* one item, the worker has acknowledged the last of them, and the item is
\* neither pending nor counted.
C7_Witness ==
    /\ failStreak.n >= maxRetries /\ workerPc = "get"
    /\ failStreak.ev \notin wq.dirty /\ wq.queue = <<>>
    /\ NumRequeues(failStreak.ev) = 0

TriggerTypes == {"node", "timer"}

C9_StopReachesInformers ==
    (stopCh /\ \E i \in Informers : ch[i] = "open")
        ~> ((\A i \in Informers : ch[i] # "open") /\ wq.shuttingDown)

\* C10: while the worker loop runs, a not-ready -> ready update of a node
\* whose handler reaches queue.Add makes exactly Event{getReady, node, <key>}
\* pending and nothing else; GetReadyNodes is called only for an item whose trigger
\* evaluation returned true, and once.
C10_ReadyNodeReachesTrigger ==
    /\ [](listed # "none" => (triggered = "true" /\ workerPc = "done"))
    /\ [][ (NodeHandlerEnds /\ nodeCb.keyOk /\ err = NoErr /\ runPc = "worker")
            => wq'.dirty = wq.dirty \cup {Event(nodeCb.obj, "getReady", "node")} ]_vars
\* The timer callback's and the replica-set handler's closing statements run.
TimerHandlerEnds == timerPc = "l113" /\ timerPc' = "idle"
RsHandlerEnds    == rsCb.pc = "l143" /\ rsCb'.pc = "idle"

\* C11: every event the timer callback submits is Event{onTime, timer} with
\* an empty key, whatever callbacks ran before.
C11_TimerEventHasNoKey ==
    [][ TimerHandlerEnds => wq' = QAdd(wq, TimerEvent) ]_vars

\* The events the queue holds or has handed to the worker.
QueuedEvents == wq.dirty \cup wq.processing

\* C12: every event in the queue carries the fields one callback invocation
\* writes: (onTime, timer), (getReady, node) with a node's key, or
\* (rsUpdate, replicaSet) with a replica set's key.
C12_EventsFromOneCallback ==
    \A e \in QueuedEvents :
        \/ e.eventType = "onTime" /\ e.resourceType = "timer"
        \/ e.eventType = "getReady" /\ e.resourceType = "node" /\ e.key \in NodeKeys
        \/ e.eventType = "rsUpdate" /\ e.resourceType = "replicaSet" /\ e.key \in RsKeys

\* C13: a callback's write to newEvent changes no event that is pending in
\* the queue or held by the worker.
C13_QueuedEventsImmutable ==
    [][ newEvent' # newEvent => (wq' = wq /\ item' = item) ]_vars

\* C13 witness: the worker holds an event while the replica-set handler has
\* written a different key and eventType into newEvent.
C13_Witness ==
    /\ workerPc = "process" /\ wq.processing = {item}
    /\ rsCb.pc = "l142" /\ newEvent.eventType = "rsUpdate"
    /\ item.eventType # newEvent.eventType /\ item.key # newEvent.key

\* C14: a node or replica-set notification whose key derivation failed adds
\* nothing to the queue.
C14_KeyErrorDropsEvent ==
    [][ /\ (NodeHandlerEnds /\ ~nodeCb.keyOk) => wq' = wq
        /\ (RsHandlerEnds /\ ~rsCb.keyOk) => wq' = wq ]_vars
\* The worker's positions between a Get that returned an item and its Done.
Holding == {"classify", "process", "done"}

\* C15: a Get that returns an item happens only when every earlier item has
\* been marked Done, and the worker leaves an item only through Done, which
\* clears that item from the processing set, on every processing path.
C15_GetThenOneDone ==
    [][ /\ (workerPc = "get" /\ workerPc' = "classify")
            => (wq.processing = {} /\ wq'.processing = {item'})
        /\ (workerPc \in Holding /\ workerPc' \notin Holding)
            => (workerPc = "done" /\ workerPc' = "get"
                /\ wq.processing = {item} /\ wq'.processing = {}) ]_vars

\* C15 witness: an item whose GetReadyNodes call failed has been marked Done
\* and the worker is at its next Get.
C15_Witness ==
    /\ workerPc = "get" /\ failStreak.n >= 1
    /\ wq.processing = {} /\ wq.queue # <<>>

\* C16: the worker loop ends only when Get reports shutdown; after a failed
\* GetReadyNodes call the worker is back at Get under the same runWorker call
\* and the queue still accepts additions.
C16_FailureKeepsWorkerRunning ==
    [][ /\ (workerPc # "idle" /\ workerPc' = "idle")
            => (workerPc = "get" /\ QGetQuit(wq))
        /\ AckFailed => (runPc' = "worker" /\ ~wq'.shuttingDown) ]_vars

\* C16 witness: after a failed GetReadyNodes call the worker has dequeued the
\* next item.
C16_Witness ==
    /\ workerPc = "classify" /\ runPc = "worker"
    /\ failStreak.n >= 1 /\ item # ZeroEvent

\* C17: a replica-set update whose key derivation succeeded submits
\* Event{rsUpdate, replicaSet, key of the updated object}.
C17_RsSubmitsOwnEvent ==
    [][ (RsHandlerEnds /\ rsCb.keyOk /\ err = NoErr)
            => wq' = QAdd(wq, Event(rsCb.obj, "rsUpdate", "replicaSet")) ]_vars

\* C18: when IsTriggered returned false for a node or timer event, the provider
\* is not called, the item's retry counter is zero, and Done does not put the
\* item back unless a callback added it again meanwhile.
C18_NotTriggeredIsSuccess ==
    /\ [](triggered = "false" =>
            /\ workerPc = "done" /\ listed = "none"
            /\ item.resourceType \in TriggerTypes
            /\ NumRequeues(item) = 0)
    /\ [][ (triggered = "false" /\ workerPc' = "get") =>
            /\ item \notin wq.dirty => item \notin wq'.dirty
            /\ item \notin DOMAIN numRequeues' ]_vars

\* C18 witness: a timer or node event for which IsTriggered returned false
\* is about to be marked Done.
C18_Witness ==
    /\ workerPc = "done" /\ triggered = "false"
    /\ item.resourceType \in TriggerTypes /\ item \notin wq.dirty
\* C19: when Run has returned, by a failed cache sync or after wait.Until, the
\* queue is shut down and no informer's stop channel is left open; the stop
\* channels are closed before the queue is shut down.
C19_RunReturnsCleanedUp ==
    /\ runPc = "returned" =>
            /\ wq.shuttingDown /\ defers = <<>>
            /\ \A i \in Informers : ch[i] # "open"
    /\ wq.shuttingDown => \A i \in Informers : ch[i] # "open"

\* C19 witness: Run returned after wait.Until, with all three informers
\* started and stopped.
C19_Witness ==
    /\ runPc = "returned" /\ handledError = "none" /\ stopCh
    /\ \A i \in Informers : ch[i] = "closed"
    /\ wq.shuttingDown

\* C20: an event added while the worker processes an equal event is kept for
\* one redelivery: it is marked dirty and not queued, further equal additions
\* change nothing, Done queues it once, and the queue never holds it twice.
C20_BusyAddRedeliveredOnce ==
    /\ [](/\ \A e \in wq.processing : e \notin QueueItems
          /\ Cardinality(QueueItems) = Len(wq.queue))
    /\ [][ (TimerHandlerEnds /\ newEvent \in wq.processing) =>
            /\ newEvent \in wq'.dirty
            /\ wq'.queue = wq.queue
            /\ newEvent \in wq.dirty => wq' = wq ]_vars
    /\ [][ (workerPc = "done" /\ workerPc' = "get") =>
            wq'.queue = IF item \in wq.dirty THEN Append(wq.queue, item)
                        ELSE wq.queue ]_vars

\* C20 witness: the worker is processing an event that the timer has added
\* again meanwhile, and the timer callback is about to add it once more.
C20_Witness ==
    /\ workerPc = "process" /\ wq.processing = {item}
    /\ item \in wq.dirty /\ wq.queue = <<>>
    /\ timerPc = "l113" /\ newEvent = item
=============================================================================
